---- MODULE Spec2Model ----
(***************************************************************************)
(* Model of snntorch/_neurons/lif.py: the LIF neuron base class, its       *)
(* class-level instance registry, the default Heaviside spike function     *)
(* with its surrogate backward rule, the hidden-state factories and the    *)
(* _SpikeTorchConv state materializer.                                     *)
(*                                                                         *)
(* Tensors passed to and returned by the neuron operations are values      *)
(*   [data |-> <<row, ...>>, history |-> set of leaves],                   *)
(* data being a matrix (a sequence of rows of integers; only sign and      *)
(* order of the floats matter to the code) and history the set of leaf     *)
(* tensors the autograd graph of the value leads back to (empty: no        *)
(* gradient history).  Hidden-state tensors that are mutated in place or   *)
(* allocated live in the heap `tensors`, addressed by index.               *)
(***************************************************************************)
EXTENDS Integers, Sequences, FiniteSets, TLC

VARIABLES
    instances,   \* class -> [own, items]: the `instances` attribute of each class
    neurons,     \* the LIF objects allocated so far, by identity (index)
    tensors,     \* the heap of hidden-state tensors, by address (index)
    ret,         \* the last call: operation, arguments, returned value, exception
    sinceClear   \* history: instances successfully constructed since the last init()

vars == <<instances, neurons, tensors, ret, sinceClear>>

(***************************************************************************)
(* Bounds of the model and the input sets the actions draw from.           *)
(***************************************************************************)
MaxObjects == 3
MaxTensors == 4
Units == 2
MaxLen == 3

Classes == {"LIF", "Synaptic"}
BatchSizes == {1, 2}
MemValues == {0, 1}
StepValues == {-1, 0, 1}
GradValues == {-1, 0, 2}
PerUnitThreshold == [c \in 1..Units |-> IF c = 1 THEN -1 ELSE 1]
Thresholds == {<<1>>, <<-1>>, PerUnitThreshold}
SpikeGradArgs == {"None", "custom"}
ResetArgs == {"subtract", "zero", "invalid"}
ValidResetArgs == {"subtract", "zero"}

\* all rows x cols matrices over the value set vals
Matrices(rows, cols, vals) == [1..rows -> [1..cols -> vals]]

\* a caller's tensor: data, and whether the caller set requires_grad on it
Leaf(data, requires_grad) ==
    [data |-> data, history |-> IF requires_grad THEN {"mem"} ELSE {}]

Mems == { Leaf(d, g) : d \in UNION { Matrices(b, Units, MemValues) : b \in BatchSizes },
                       g \in BOOLEAN }

(***************************************************************************)
(* Tensor arithmetic consumed from torch.                                  *)
(***************************************************************************)
Rows(data) == Len(data)
Cols(data) == IF Len(data) = 0 THEN 0 ELSE Len(data[1])
Shape(data) == <<Rows(data), Cols(data)>>

\* broadcasting of a 0-dim or per-unit (1-D) tensor along the unit dimension
BroadcastAt(vec, c) == IF Len(vec) = 1 THEN vec[1] ELSE vec[c]

\* mem - self.threshold
Sub(mem, thr) ==
    [data |-> [r \in 1..Rows(mem.data) |->
                 [c \in 1..Cols(mem.data) |-> mem.data[r][c] - BroadcastAt(thr.data, c)]],
     history |-> mem.history \cup thr.history]

\* element-wise product of a spike tensor and a constant mask
Mul(a, mask) ==
    [data |-> [r \in 1..Rows(a.data) |->
                 [c \in 1..Cols(a.data) |-> a.data[r][c] * mask[r][c]]],
     history |-> a.history]

\* torch.argmax(row): the first index holding the maximum
ArgMax(row) ==
    CHOOSE c \in 1..Len(row) :
        /\ \A d \in 1..Len(row) : row[d] <= row[c]
        /\ \A d \in 1..(c - 1) : row[d] < row[c]

\* tensor.clone(): a copy that stays in the graph
Clone(t) == [data |-> t.data, history |-> t.history]

\* tensor.detach(): the same values, cut from the graph
Detach(t) == [data |-> t.data, history |-> {}]

(***************************************************************************)
(* LIF.Heaviside, the default spike function.                              *)
(***************************************************************************)
\* out = (input_ > 0).float()
HeavisideForward(data) ==
    [r \in 1..Rows(data) |-> [c \in 1..Cols(data) |-> IF data[r][c] > 0 THEN 1 ELSE 0]]

\* faulty variant of HeavisideBackward: a straight-through gradient
BackwardPassThrough(saved, grad_output) == grad_output
\* (out,) = ctx.saved_tensors; grad = grad_output * out
HeavisideBackward(saved, grad_output) ==
    [r \in 1..Rows(grad_output) |->
        [c \in 1..Cols(grad_output) |-> grad_output[r][c] * saved[1][r][c]]]

\* a spike_grad supplied by the caller: some other forward+backward unit; this
\* one fires on x >= 0, so that it is told apart from the default at x = 0
CustomForward(data) ==
    [r \in 1..Rows(data) |-> [c \in 1..Cols(data) |-> IF data[r][c] >= 0 THEN 1 ELSE 0]]

\* if spike_grad is None: self.spike_grad = self.Heaviside.apply, else: the substitute
SpikeGradOf(spike_grad) == IF spike_grad = "None" THEN "Heaviside" ELSE spike_grad

\* self.spike_grad(x): the values, the graph edge, and what the default saved
ApplySpikeGrad(spike_grad, x) ==
    IF spike_grad = "Heaviside"
    THEN [data |-> HeavisideForward(x.data), history |-> x.history]
    ELSE [data |-> CustomForward(x.data), history |-> x.history]

SavedBy(spike_grad, x) ==
    IF spike_grad = "Heaviside" THEN <<HeavisideForward(x.data)>> ELSE <<>>

(***************************************************************************)
(* The neuron operations, as functions of the object and the arguments.    *)
(***************************************************************************)
\* self.threshold as an operand: a Parameter is a leaf of the graph, a buffer is not
ThresholdOf(obj) ==
    [data |-> obj.threshold.data,
     history |-> IF obj.threshold.parameter THEN {"threshold"} ELSE {}]

\* faulty variant of Fire: the threshold added instead of subtracted
FireAddsThreshold(obj, mem) ==
    ApplySpikeGrad(obj.spike_grad,
        Sub(mem, [data |-> [c \in 1..Len(obj.threshold.data) |-> 0 - obj.threshold.data[c]],
                  history |-> ThresholdOf(obj).history]))
\* LIF.fire: spk = self.spike_grad(mem - self.threshold)
Fire(obj, mem) == ApplySpikeGrad(obj.spike_grad, Sub(mem, ThresholdOf(obj)))

\* what LIF.fire's call of the default spike function saved for backward
FireSaved(obj, mem) == SavedBy(obj.spike_grad, Sub(mem, ThresholdOf(obj)))

\* mask_spk1[torch.arange(batch_size), index] = 1: the positions written.  The
\* two index tensors are broadcast against each other: equal lengths pair up,
\* a single row index pairs with every column index.
MaskPairs(batch_size, index) ==
    IF batch_size = Len(index)
    THEN { <<r, index[r]>> : r \in 1..Len(index) }
    ELSE { <<1, index[j]>> : j \in 1..Len(index) }

\* the indexing raises IndexError when the lengths do not broadcast or a row
\* index lies outside the mask
MaskRaises(batch_size, rows) ==
    /\ batch_size # rows
    /\ batch_size # 1

\* faulty variant of Mask: nothing masked
MaskNoInhibition(batch_size, index, rows, cols) ==
    [r \in 1..rows |-> [c \in 1..cols |-> 1]]
\* mask_spk1 = torch.zeros_like(spk_tmp) with the positions above set to 1
Mask(batch_size, index, rows, cols) ==
    [r \in 1..rows |->
        [c \in 1..cols |-> IF <<r, c>> \in MaskPairs(batch_size, index) THEN 1 ELSE 0]]

\* LIF.fire_inhibition, when the indexing does not raise
FireInhibition(obj, batch_size, mem) ==
    LET mem_shift == Sub(mem, ThresholdOf(obj))
        index == [r \in 1..Rows(mem_shift.data) |-> ArgMax(mem_shift.data[r])]
        spk_tmp == ApplySpikeGrad(obj.spike_grad, mem_shift)
        mask_spk1 == Mask(batch_size, index, Rows(spk_tmp.data), Cols(spk_tmp.data))
    IN  Mul(spk_tmp, mask_spk1)

\* faulty variant of MemReset: the detach left out
MemResetKeepsGraph(obj, mem) ==
    Clone(ApplySpikeGrad(obj.spike_grad, Sub(mem, ThresholdOf(obj))))
\* LIF.mem_reset: reset = self.spike_grad(mem_shift).clone().detach()
MemReset(obj, mem) ==
    Detach(Clone(ApplySpikeGrad(obj.spike_grad, Sub(mem, ThresholdOf(obj)))))

(***************************************************************************)
(* The instance registry: the class attribute `instances`.                 *)
(***************************************************************************)
\* attribute lookup cls.instances: the class's own attribute, else LIF's
Lookup(reg, cls) == IF reg[cls].own THEN reg[cls].items ELSE reg["LIF"].items

\* faulty variant of Register: the instance inserted at the front
RegisterFirst(reg, self) == [reg EXCEPT !["LIF"].items = <<self>> \o @]
\* LIF.instances.append(self)
Register(reg, self) == [reg EXCEPT !["LIF"].items = Append(@, self)]

\* cls.instances = []: binds a new empty list to the attribute of cls itself
Clear(reg, cls) == [reg EXCEPT ![cls] = [own |-> TRUE, items |-> <<>>]]

\* if reset_mechanism != "subtract" and reset_mechanism != "zero": raise ValueError
ResetMechanismRaises(reset_mechanism) ==
    reset_mechanism # "subtract" /\ reset_mechanism # "zero"

(***************************************************************************)
(* Actions: LIF.                                                           *)
(***************************************************************************)
\* LIF.__init__ (also reached through super().__init__ of a subclass cls)
__init__(cls, beta, threshold, spike_grad, init_hidden, inhibition, learn_beta, learn_threshold, reset_mechanism, output) ==
    LET self == Len(neurons) + 1
        obj == [cls |-> cls,
                init_hidden |-> init_hidden,
                inhibition |-> inhibition,
                reset_mechanism |-> reset_mechanism,
                output |-> output,
                beta |-> [data |-> beta, parameter |-> learn_beta],
                threshold |-> [data |-> threshold, parameter |-> learn_threshold],
                spike_grad |-> SpikeGradOf(spike_grad)]
        raised == ResetMechanismRaises(reset_mechanism)
    IN  /\ neurons' = Append(neurons, obj)
        /\ instances' = Register(instances, self)
        /\ ret' = [op |-> "__init__", self |-> self, cls |-> cls,
                   spike_grad |-> spike_grad, reset_mechanism |-> reset_mechanism,
                   raised |-> IF raised THEN "ValueError" ELSE "None"]
        /\ sinceClear' = IF raised THEN sinceClear ELSE Append(sinceClear, self)
        /\ UNCHANGED tensors

\* LIF.init, a classmethod: called as LIF.init() or through a subclass
init(cls) ==
    /\ instances' = Clear(instances, cls)
    /\ ret' = [op |-> "init", cls |-> cls, raised |-> "None"]
    /\ sinceClear' = <<>>
    /\ UNCHANGED <<neurons, tensors>>

fire(self, mem) ==
    /\ self \in 1..Len(neurons)
    /\ ret' = [op |-> "fire", self |-> self, mem |-> mem,
               value |-> Fire(neurons[self], mem),
               ctx |-> FireSaved(neurons[self], mem), raised |-> "None"]
    /\ UNCHANGED <<instances, neurons, tensors, sinceClear>>

fire_inhibition(self, batch_size, mem) ==
    /\ self \in 1..Len(neurons)
    /\ ret' = IF MaskRaises(batch_size, Rows(mem.data))
              THEN [op |-> "fire_inhibition", self |-> self, batch_size |-> batch_size,
                    mem |-> mem, raised |-> "IndexError"]
              ELSE [op |-> "fire_inhibition", self |-> self, batch_size |-> batch_size,
                    mem |-> mem, value |-> FireInhibition(neurons[self], batch_size, mem),
                    raised |-> "None"]
    /\ UNCHANGED <<instances, neurons, tensors, sinceClear>>

mem_reset(self, mem) ==
    /\ self \in 1..Len(neurons)
    /\ ret' = [op |-> "mem_reset", self |-> self, mem |-> mem,
               value |-> MemReset(neurons[self], mem), raised |-> "None"]
    /\ UNCHANGED <<instances, neurons, tensors, sinceClear>>

(***************************************************************************)
(* Actions: LIF.Heaviside called on its own.                               *)
(***************************************************************************)
\* Heaviside.forward(ctx, input_): ctx.save_for_backward(out); return out
forward(input_) ==
    /\ ret' = [op |-> "forward", input |-> input_,
               value |-> HeavisideForward(input_),
               ctx |-> <<HeavisideForward(input_)>>, raised |-> "None"]
    /\ UNCHANGED <<instances, neurons, tensors, sinceClear>>

\* Heaviside.backward(ctx, grad_output), on the ctx of the latest default forward
backward(grad_output) ==
    /\ "ctx" \in DOMAIN ret
    /\ ret.ctx # <<>>
    /\ Shape(grad_output) = Shape(ret.ctx[1])
    /\ ret' = [op |-> "backward", ctx |-> ret.ctx, grad_output |-> grad_output,
               value |-> HeavisideBackward(ret.ctx, grad_output), raised |-> "None"]
    /\ UNCHANGED <<instances, neurons, tensors, sinceClear>>

(***************************************************************************)
(* Hidden states: _SpikeTensor placeholders, detach, zeros and             *)
(* _SpikeTorchConv.  A heap tensor is [cls, data, requires_grad] and, for  *)
(* a _SpikeTensor, init_flag.                                              *)
(***************************************************************************)
\* _SpikeTensor(init_flag=...): an empty tensor carrying the flag
SpikeTensor(init_flag) ==
    [cls |-> "_SpikeTensor", data |-> <<>>, requires_grad |-> FALSE,
     init_flag |-> init_flag]

\* a tensor the caller allocated: a layer input, or a state a recurrence updated
CallerTensorOf(data, requires_grad) ==
    [cls |-> "Tensor", data |-> data, requires_grad |-> requires_grad]

\* torch.zeros_like(t, requires_grad=...): a new tensor of t's shape
ZerosLike(t, requires_grad) ==
    [cls |-> "Tensor",
     data |-> [r \in 1..Rows(t.data) |-> [c \in 1..Cols(t.data) |-> 0]],
     requires_grad |-> requires_grad]

\* the addresses of k tensors allocated next
Fresh(heap, k) == [i \in 1..k |-> Len(heap) + i]

\* init_leaky: mem = _SpikeTensor(init_flag=False)
InitLeaky == <<SpikeTensor(FALSE)>>
\* init_synaptic: syn, mem
InitSynaptic == <<SpikeTensor(FALSE), SpikeTensor(FALSE)>>
\* init_alpha: syn_exc, syn_inh, mem
InitAlpha == <<SpikeTensor(FALSE), SpikeTensor(FALSE), SpikeTensor(FALSE)>>

\* a factory call: the placeholders are allocated and returned, a single one bare
Factory(op, made) ==
    /\ tensors' = tensors \o made
    /\ ret' = [op |-> op, value |-> Fresh(tensors, Len(made)),
               wrapped |-> Len(made) # 1, raised |-> "None"]
    /\ UNCHANGED <<instances, neurons, sinceClear>>

init_leaky == Factory("init_leaky", InitLeaky)
init_synaptic == Factory("init_synaptic", InitSynaptic)
\* return LIF.init_synaptic()
init_stein == Factory("init_stein", InitSynaptic)
\* return LIF.init_leaky()
init_lapicque == Factory("init_lapicque", InitLeaky)
init_alpha == Factory("init_alpha", InitAlpha)

\* the caller allocates a tensor
CallerTensor(data, requires_grad) ==
    /\ tensors' = Append(tensors, CallerTensorOf(data, requires_grad))
    /\ ret' = [op |-> "tensor", value |-> Fresh(tensors, 1), wrapped |-> FALSE,
               raised |-> "None"]
    /\ UNCHANGED <<instances, neurons, sinceClear>>

\* for state in args: state.detach_()   (in place)
DetachAll(heap, args) ==
    [a \in 1..Len(heap) |->
        IF \E i \in 1..Len(args) : args[i] = a
        THEN [heap[a] EXCEPT !.requires_grad = FALSE]
        ELSE heap[a]]

\* for state in args: state = torch.zeros_like(state)
\* each turn binds the loop variable to a new zero tensor; the tensor the caller
\* passed is not written, and the new one is unreachable after the turn
ZerosLocals(heap, args) == [i \in 1..Len(args) |-> ZerosLike(heap[args[i]], FALSE)]

\* the heap after the loop
ZerosAll(heap, args) ==
    LET state == ZerosLocals(heap, args)
    IN  heap

detach(args) ==
    /\ tensors' = DetachAll(tensors, args)
    /\ ret' = [op |-> "detach", args |-> args, raised |-> "None"]
    /\ UNCHANGED <<instances, neurons, sinceClear>>

zeros(args) ==
    /\ tensors' = ZerosAll(tensors, args)
    /\ ret' = [op |-> "zeros", args |-> args, raised |-> "None"]
    /\ UNCHANGED <<instances, neurons, sinceClear>>

\* *args is always a tuple, so `type(args) is not tuple` never holds
ArgsIsTuple == TRUE
ConvIter(args) == IF Len(args) = 1 /\ ~ArgsIsTuple THEN <<args>> ELSE args

\* for arg in args: arg = torch.Tensor(arg); arg = torch.zeros_like(input_,
\* requires_grad=True); states.append(arg)
ConvStates(heap, args, input_) ==
    [i \in 1..Len(ConvIter(args)) |-> ZerosLike(heap[input_], TRUE)]

\* faulty variant of ConvAddresses: one tensor appended k times
ConvAliased(heap, k) == [i \in 1..k |-> Len(heap) + 1]
\* where states[i] lives: every turn of the loop allocates its own tensor
ConvAddresses(heap, k) == Fresh(heap, k)

\* if len(states) == 1: return states[0], else: return states
ConvWrapped(states) == Len(states) # 1

SpikeTorchConv(args, input_) ==
    LET states == ConvStates(tensors, args, input_)
    IN  /\ tensors' = tensors \o states
        /\ ret' = [op |-> "_SpikeTorchConv", args |-> args, input |-> input_,
                   value |-> ConvAddresses(tensors, Len(states)),
                   wrapped |-> ConvWrapped(states), raised |-> "None"]
        /\ UNCHANGED <<instances, neurons, sinceClear>>

(***************************************************************************)
(* Specifications.  Init is the state after the module is imported.        *)
(***************************************************************************)
Init ==
    /\ instances = [c \in Classes |-> [own |-> c = "LIF", items |-> <<>>]]
    /\ neurons = <<>>
    /\ tensors = <<>>
    /\ ret = [op |-> "import", raised |-> "None"]
    /\ sinceClear = <<>>

\* argument tuples of hidden states the caller holds
ArgCounts == {1, 2}
ArgTuples == UNION { [1..k -> 1..Len(tensors)] : k \in ArgCounts }
\* reference inputs: real tensors the caller holds
References == { a \in 1..Len(tensors) : tensors[a].cls = "Tensor" }

\* the default construction arguments
DefaultBeta == <<1>>
DefaultThreshold == <<1>>

(* Spec: the registry life cycle, every operation of the module included,  *)
(* the tensor arguments drawn from small sets.                             *)
RoomFor(k) == Len(neurons) + Len(tensors) + k <= MaxObjects
SmallMems == { Leaf(<<<<1, 0>>>>, TRUE) }
SmallInputs == { <<<<0, 1>>>> }
SmallGrads == { <<<<2, 2>>>> }
SmallData == { <<<<1, 2>>>> }

Others ==
    \/ \E self \in 1..Len(neurons), mem \in SmallMems : fire(self, mem)
    \/ \E self \in 1..Len(neurons), mem \in SmallMems : fire_inhibition(self, 1, mem)
    \/ \E self \in 1..Len(neurons), mem \in SmallMems : mem_reset(self, mem)
    \/ \E x \in SmallInputs : forward(x)
    \/ \E g \in SmallGrads : backward(g)
    \/ RoomFor(1) /\ init_leaky
    \/ RoomFor(2) /\ init_synaptic
    \/ RoomFor(2) /\ init_stein
    \/ RoomFor(1) /\ init_lapicque
    \/ RoomFor(3) /\ init_alpha
    \/ RoomFor(1) /\ \E d \in SmallData : CallerTensor(d, FALSE)
    \/ \E args \in ArgTuples : detach(args)
    \/ \E args \in ArgTuples : zeros(args)
    \/ \E args \in ArgTuples, x \in References :
          RoomFor(Len(args)) /\ SpikeTorchConv(args, x)

Next ==
    \/ RoomFor(1) /\ \E cls \in Classes, reset_mechanism \in ResetArgs :
          __init__(cls, DefaultBeta, DefaultThreshold, "None", FALSE, FALSE, FALSE, FALSE, reset_mechanism, FALSE)
    \/ \E cls \in Classes : init(cls)
    \/ Others

Spec == Init /\ [][Next]_vars

(* SpecLifecycle: successful constructions and LIF.init() only, with every *)
(* other operation.                                                        *)
NextLifecycle ==
    \/ RoomFor(1) /\ \E cls \in Classes, reset_mechanism \in ValidResetArgs :
          __init__(cls, DefaultBeta, DefaultThreshold, "None", FALSE, FALSE, FALSE, FALSE, reset_mechanism, FALSE)
    \/ init("LIF")
    \/ Others

SpecLifecycle == Init /\ [][NextLifecycle]_vars

(* SpecFire: one neuron of any configuration, fire and mem_reset on every   *)
(* membrane batch.                                                         *)
OneNeuron ==
    /\ neurons = <<>>
    /\ \E threshold \in Thresholds, spike_grad \in SpikeGradArgs, learn_threshold \in BOOLEAN :
          __init__("LIF", DefaultBeta, threshold, spike_grad, FALSE, FALSE, FALSE, learn_threshold, "subtract", FALSE)

NextFire ==
    \/ OneNeuron
    \/ \E self \in 1..Len(neurons), mem \in Mems : fire(self, mem)
    \/ \E self \in 1..Len(neurons), mem \in Mems : mem_reset(self, mem)

SpecFire == Init /\ [][NextFire]_vars

(* SpecInhibition: one neuron of any configuration, fire_inhibition on     *)
(* every membrane batch and batch size.                                    *)
NextInhibition ==
    \/ OneNeuron
    \/ \E self \in 1..Len(neurons), mem \in Mems, batch_size \in BatchSizes :
          fire_inhibition(self, batch_size, mem)

SpecInhibition == Init /\ [][NextInhibition]_vars

(* SpecStep: the default spike function on every input vector.             *)
NextStep ==
    \/ \E n \in 1..MaxLen : \E x \in Matrices(1, n, StepValues) : forward(x)
    \/ \E n \in 1..MaxLen : \E g \in Matrices(1, n, GradValues) : backward(g)

SpecStep == Init /\ [][NextStep]_vars

(* SpecState: the hidden-state operations on a heap of tensors.            *)
Room(k) == Len(tensors) + k <= MaxTensors

NextState ==
    \/ Room(1) /\ init_leaky
    \/ Room(2) /\ init_synaptic
    \/ Room(2) /\ init_stein
    \/ Room(1) /\ init_lapicque
    \/ Room(3) /\ init_alpha
    \/ Room(1) /\ \E d \in SmallData : CallerTensor(d, FALSE)
    \/ \E args \in ArgTuples : detach(args)
    \/ \E args \in ArgTuples : zeros(args)
    \/ \E args \in ArgTuples, x \in References :
          Room(Len(args)) /\ SpikeTorchConv(args, x)

SpecState == Init /\ [][NextState]_vars

(***************************************************************************)
(* Properties.                                                             *)
(***************************************************************************)
\* LIF.instances as the program reads it
Registry == Lookup(instances, "LIF")

\* the configured spike function on one element
StepAt(obj, x) == ApplySpikeGrad(obj.spike_grad, [data |-> <<<<x>>>>, history |-> {}]).data[1][1]

\* membrane minus threshold at one position
ShiftedAt(obj, mem, r, c) == mem.data[r][c] - BroadcastAt(obj.threshold.data, c)

\* C1: the default step function returns 1 at every element x >= 0 and 0 at
\* every other element: an element equal to 0 fires, and no other value occurs.
C1_StepForwardExact ==
    ret.op = "forward" =>
        /\ Shape(ret.value) = Shape(ret.input)
        /\ \A r \in 1..Rows(ret.input) : \A c \in 1..Cols(ret.input) :
              ret.value[r][c] = IF ret.input[r][c] >= 0 THEN 1 ELSE 0

\* C2: a construction with a reset_mechanism other than "subtract" or "zero"
\* raises ValueError and leaves the registry of every class as it was: the
\* failed instance is no entry of LIF.instances.
C2_FailedConstructionNotRegistered ==
    [][ (ret'.op = "__init__" /\ ret'.reset_mechanism \notin {"subtract", "zero"})
            => /\ ret'.raised = "ValueError"
               /\ instances' = instances
               /\ \A i \in 1..Len(Lookup(instances', "LIF")) :
                     Lookup(instances', "LIF")[i] # ret'.self ]_vars

\* C3: after successful constructions and LIF.init() calls, LIF.instances holds
\* exactly the instances constructed since the last clear, each once, in
\* construction order; right after LIF.init() it is empty; and no operation
\* other than a construction or a clear changes the registry.
C3_RegistryLifecycle ==
    /\ [](/\ Registry = sinceClear
          /\ \A i \in 1..Len(Registry) : \A j \in 1..Len(Registry) :
                i < j => Registry[i] < Registry[j]
          /\ \A i \in 1..Len(Registry) : Registry[i] \in 1..Len(neurons)
          /\ (ret.op = "init" => Len(Registry) = 0)
          /\ (ret.op = "__init__" =>
                Len(Registry) > 0 /\ Registry[Len(Registry)] = ret.self))
    /\ [][ ret'.op \notin {"__init__", "init"} => instances' = instances ]_vars

C3_Witness ==
    /\ ret.op = "fire"
    /\ Len(neurons) = 3
    /\ Registry = <<2, 3>>
    /\ neurons[3].cls = "Synaptic"

\* C4: with a membrane of batch_size rows, fire_inhibition returns a tensor of
\* the membrane's shape; in every row all positions but the first argmax of
\* (membrane - threshold) are 0, and that position is 1 when the spike function
\* fires on the row's maximum shifted value and 0 when it does not.
C4_InhibitionExclusive ==
    (ret.op = "fire_inhibition" /\ ret.batch_size = Rows(ret.mem.data)) =>
        /\ ret.raised = "None"
        /\ Shape(ret.value.data) = Shape(ret.mem.data)
        /\ \A r \in 1..Rows(ret.mem.data) :
              \E j \in 1..Cols(ret.mem.data) :
                 LET obj == neurons[ret.self]
                     cols == 1..Cols(ret.mem.data)
                 IN  /\ \A c \in cols :
                           ShiftedAt(obj, ret.mem, r, c) <= ShiftedAt(obj, ret.mem, r, j)
                     /\ \A c \in cols :
                           c < j => ShiftedAt(obj, ret.mem, r, c) < ShiftedAt(obj, ret.mem, r, j)
                     /\ \A c \in cols : c # j => ret.value.data[r][c] = 0
                     /\ ret.value.data[r][j] \in {0, 1}
                     /\ ret.value.data[r][j] = 1
                           <=> StepAt(obj, ShiftedAt(obj, ret.mem, r, j)) = 1
                     /\ Cardinality({ c \in cols : ret.value.data[r][c] # 0 }) <= 1

C4_Witness ==
    /\ ret.op = "fire_inhibition"
    /\ ret.raised = "None"
    /\ ret.batch_size = 2
    /\ Rows(ret.mem.data) = 2
    /\ ShiftedAt(neurons[ret.self], ret.mem, 1, 1) = ShiftedAt(neurons[ret.self], ret.mem, 1, 2)
    /\ ret.value.data = <<<<1, 0>>, <<0, 0>>>>

\* C6: mem_reset returns the values fire returns on the same membrane, with no
\* gradient history, while fire's result leads back to the membrane and to a
\* learnable threshold whenever these take part in the gradient.
C6_ResetDetached ==
    ret.op = "mem_reset" =>
        LET obj == neurons[ret.self]
            spk == Fire(obj, ret.mem)
        IN  /\ ret.value.data = spk.data
            /\ ret.value.history = {}
            /\ ("mem" \in spk.history) = ("mem" \in ret.mem.history)
            /\ ("threshold" \in spk.history) = obj.threshold.parameter

C6_Witness ==
    /\ ret.op = "mem_reset"
    /\ "mem" \in ret.mem.history
    /\ neurons[ret.self].threshold.parameter
    /\ \E r \in 1..Rows(ret.value.data) : ret.value.data[r][1] = 1

\* C9: fire returns the configured spike function (the default, or the caller's
\* substitute) of (membrane - threshold) at every element, the threshold
\* broadcast over the units; the result has the membrane's shape, and the call
\* changes neither the neuron's threshold and decay nor the registry.
C9_FireThresholdShift ==
    /\ [](ret.op = "fire" =>
            LET obj == neurons[ret.self]
            IN  /\ Shape(ret.value.data) = Shape(ret.mem.data)
                /\ \A r \in 1..Rows(ret.mem.data) : \A c \in 1..Cols(ret.mem.data) :
                      ret.value.data[r][c] = StepAt(obj, ShiftedAt(obj, ret.mem, r, c)))
    /\ [](ret.op = "__init__" =>
            neurons[ret.self].spike_grad =
                IF ret.spike_grad = "None" THEN "Heaviside" ELSE ret.spike_grad)
    /\ [][ ret'.op = "fire" => neurons' = neurons /\ instances' = instances ]_vars

C9_Witness ==
    /\ ret.op = "fire"
    /\ neurons[ret.self].threshold.data = PerUnitThreshold
    /\ neurons[ret.self].spike_grad = "custom"
    /\ ret.mem.data = <<<<0, 1>>, <<1, 0>>>>
    /\ ret.value.data = <<<<1, 1>>, <<1, 0>>>>

\* C8: backward returns grad_output * out element-wise, out being the output
\* the forward call saved: the gradient where the output was 1, zero where it
\* was 0.
C8_BackwardGating ==
    /\ (ret.op = "forward" => ret.ctx = <<ret.value>>)
    /\ (ret.op = "backward" =>
          /\ Shape(ret.value) = Shape(ret.grad_output)
          /\ \A r \in 1..Rows(ret.value) : \A c \in 1..Cols(ret.value) :
                /\ ret.ctx[1][r][c] \in {0, 1}
                /\ ret.value[r][c] =
                      IF ret.ctx[1][r][c] = 1 THEN ret.grad_output[r][c] ELSE 0)

C8_Witness ==
    /\ ret.op = "backward"
    /\ ret.ctx = << <<<<0, 1, 1>>>> >>
    /\ ret.grad_output = <<<<2, -1, 2>>>>
    /\ ret.value = <<<<0, -1, 2>>>>

\* C5: after zeros(*states) every state tensor passed in holds only zeros.
C5_ZerosClearsStates ==
    ret.op = "zeros" =>
        \A i \in 1..Len(ret.args) :
            LET data == tensors[ret.args[i]].data
            IN  \A r \in 1..Rows(data) : \A c \in 1..Cols(data) : data[r][c] = 0

\* C7: _SpikeTorchConv returns one new tensor per state, in order: all zero, of
\* the reference's shape, requiring grad; bare for one state, a list for two or
\* more; no two of them the same tensor, none the reference or a state passed
\* in; the tensors that existed before the call are unchanged.
C7_MaterializeFresh ==
    /\ [](ret.op = "_SpikeTorchConv" =>
            /\ Len(ret.value) = Len(ret.args)
            /\ (Len(ret.args) = 1 => ~ret.wrapped)
            /\ (Len(ret.args) >= 2 => ret.wrapped)
            /\ \A i \in 1..Len(ret.value) :
                  LET t == tensors[ret.value[i]]
                  IN  /\ Shape(t.data) = Shape(tensors[ret.input].data)
                      /\ \A r \in 1..Rows(t.data) : \A c \in 1..Cols(t.data) : t.data[r][c] = 0
                      /\ t.requires_grad
                      /\ ret.value[i] # ret.input
                      /\ \A k \in 1..Len(ret.args) : ret.value[i] # ret.args[k]
                      /\ \A j \in 1..Len(ret.value) : i # j => ret.value[i] # ret.value[j])
    /\ [][ ret'.op = "_SpikeTorchConv" =>
             /\ \A i \in 1..Len(ret'.value) : ret'.value[i] \notin 1..Len(tensors)
             /\ \A a \in 1..Len(tensors) : tensors'[a] = tensors[a] ]_vars

C7_Witness ==
    /\ ret.op = "_SpikeTorchConv"
    /\ Len(ret.args) = 2
    /\ ret.wrapped
    /\ tensors[ret.args[1]].cls = "_SpikeTensor"
    /\ tensors[ret.args[2]].data = <<<<1, 2>>>>
    /\ ret.value = <<3, 4>>

\* C10: after init() through any class LIF.instances is empty, and every class
\* reads the one list the constructions append to.
C10_OneRegistry ==
    /\ (ret.op = "init" => Registry = <<>>)
    /\ \A c \in Classes : Lookup(instances, c) = Registry

====
